---- MODULE Spec2Model ----
(***************************************************************************)
(* media-stream-hub: the /media/<path> streaming handler (app.py           *)
(* serve_media and its chunk generator), the admin update of MEDIA_FOLDER  *)
(* (app.py update_settings) and the playback-state store (database.py      *)
(* save_playback_state / load_playback_state over the playback_state       *)
(* table of migrations.py).                                                *)
(*                                                                         *)
(* os.path is posixpath: '/' is the only separator normpath knows, a       *)
(* backslash is an ordinary character until serve_media replaces it.       *)
(***************************************************************************)
EXTENDS Integers, Sequences, FiniteSets, TLC

(***************************************************************************)
(* Bounds of the model.                                                    *)
(***************************************************************************)
\* numbers a Range header may carry: 0..MaxPos
MaxPos == 3
\* the read size of the generator ranges over 1..MaxChunk
MaxChunk == 2
\* how many times the environment changes a file on disk
MaxFsChanges == 1

(***************************************************************************)
(* Names.  A file name is a record of what os.path.splitext makes of it:   *)
(* stem and extension (the extension with its dot, "" when there is none). *)
(***************************************************************************)
N(s, e) == [stem |-> s, ext |-> e]

Dot    == N(".", "")
DotDot == N("..", "")
\* the empty string between two separators, or before a leading one
Blank  == N("", "")

\* str.lower() on the extensions that occur
Lower(e) ==
    CASE e = ".MP4" -> ".mp4"
      [] e = ".MP3" -> ".mp3"
      [] e = ".TXT" -> ".txt"
      [] OTHER      -> e

\* '..' in <name>: the name itself is "..", or two dots occur inside it
HasTwoDots(n) == n.stem \in {"..", "a..b"}

SUPPORTED_VIDEO_TYPES == {".mp4", ".webm", ".mkv", ".avi", ".mov"}
SUPPORTED_AUDIO_TYPES == {".mp3", ".wav", ".ogg", ".flac", ".aac"}
SUPPORTED_MEDIA_TYPES == SUPPORTED_VIDEO_TYPES \cup SUPPORTED_AUDIO_TYPES

(***************************************************************************)
(* The disk.  An absolute path is the sequence of its names.  Directories  *)
(* and symbolic links are fixed; regular files and their bytes change.     *)
(***************************************************************************)
RootA  == << N("m1", "") >>
RootB  == << N("m2", "") >>
EtcDir == << N("etc", "") >>

Movie   == N("movie", ".mp4")
Song    == N("song", ".MP3")
Notes   == N("notes", ".TXT")
Link    == N("link", ".mp4")
Secret  == N("secret", ".mp4")
Odd     == N("a..b", ".mp4")
Sub     == N("sub", "")

Dirs == { <<>>, RootA, RootB, EtcDir, RootA \o <<Sub>> }

\* symbolic link -> its target
Symlinks == [ p \in { RootA \o <<Link>> } |-> EtcDir \o <<Secret>> ]

\* a regular file: its bytes, how many times they were written, and whether
\* a directory entry still names it (an unlinked file lives on for the
\* handles that are open on it)
File(bytes) == [linked |-> TRUE, data |-> bytes, writes |-> 0]

InitialFiles ==
    ( RootA \o <<Movie>>      :> File(<<1, 2, 3>>) ) @@
    ( RootA \o <<Sub, Song>>  :> File(<<4, 5>>) )    @@
    ( RootA \o <<Notes>>      :> File(<<6, 7>>) )    @@
    ( RootA \o <<Odd>>        :> File(<<8>>) )       @@
    ( RootB \o <<Movie>>      :> File(<<9, 10>>) )   @@
    ( EtcDir \o <<Secret>>    :> File(<<11, 12, 13>>) )

\* the bytes the environment may append to a file
NewBytes == {99}

(***************************************************************************)
(* posixpath, as serve_media uses it.  A requested filename is the list of *)
(* its '/'-separated components; a component is the list of its            *)
(* backslash-separated pieces (one piece when it holds no backslash).      *)
(***************************************************************************)
\* the body of normpath's loop over path.split('/'), for a relative path
RECURSIVE NormLoop(_, _)
NormLoop(comps, new_comps) ==
    IF comps = <<>> THEN new_comps
    ELSE LET comp == Head(comps)
             rest == Tail(comps)
         IN  IF comp \in { <<Blank>>, <<Dot>> }
             THEN NormLoop(rest, new_comps)
             ELSE IF \/ comp # <<DotDot>>
                     \/ new_comps = <<>>
                     \/ new_comps[Len(new_comps)] = <<DotDot>>
                  THEN NormLoop(rest, Append(new_comps, comp))
                  ELSE NormLoop(rest, SubSeq(new_comps, 1, Len(new_comps) - 1))

\* os.path.normpath(filename); "." when nothing is left
normpath(path) ==
    LET comps == NormLoop(path, <<>>)
    IN  IF comps = <<>> THEN << <<Dot>> >> ELSE comps

\* .replace('\\', '/'): every piece becomes a segment of its own
RECURSIVE ReplaceBackslashes(_)
ReplaceBackslashes(comps) ==
    IF comps = <<>> THEN <<>>
    ELSE Head(comps) \o ReplaceBackslashes(Tail(comps))

\* safe_path of serve_media, as the list of its '/'-separated segments
SafePath(filename) == ReplaceBackslashes(normpath(filename))

\* '..' in safe_path
ContainsDotDot(segs) == \E i \in 1..Len(segs) : HasTwoDots(segs[i])

\* safe_path.startswith('/'): an empty segment in front of another one
IsAbs(segs) == Len(segs) >= 2 /\ segs[1] = Blank

\* os.path.join(root, safe_path): an absolute second argument discards the
\* first.  The result is the list of segments below the filesystem root.
join(root, segs) == IF IsAbs(segs) THEN Tail(segs) ELSE root \o segs

\* os.path.splitext(file_path)[1].lower()
ExtOf(path) == IF path = <<>> THEN "" ELSE Lower(path[Len(path)].ext)

(***************************************************************************)
(* Path lookup as the kernel does it: empty and "." segments are skipped,  *)
(* every name before the last must be a directory, a trailing "/" or "/."  *)
(* needs a directory, and a symbolic link is followed.                     *)
(***************************************************************************)
Strip(path) == SelectSeq(path, LAMBDA n : n \notin {Blank, Dot})

NoEnt == << N("?", "") >>

\* os.path.realpath of a path that can be walked, NoEnt otherwise
realpath(path) ==
    LET p == Strip(path)
        walkable ==
            /\ \A i \in 0..(Len(p) - 1) : SubSeq(p, 1, i) \in Dirs
            /\ (Len(path) > 0 /\ path[Len(path)] \in {Blank, Dot}) => p \in Dirs
    IN  IF ~walkable THEN NoEnt
        ELSE IF p \in DOMAIN Symlinks THEN Symlinks[p] ELSE p

\* os.path.isfile(path) on the disk `files`
isfile(disk, path) ==
    /\ realpath(path) \in DOMAIN disk
    /\ disk[realpath(path)].linked

\* os.path.getsize(path) of a path that isfile
getsize(disk, path) == Len(disk[realpath(path)].data)

\* os.path.isdir(path)
isdir(path) == realpath(path) \in Dirs

\* the canonical path lies under the canonical root
IsUnder(canon, root) ==
    /\ Len(canon) > Len(root)
    /\ SubSeq(canon, 1, Len(root)) = root

(***************************************************************************)
(* The Range header.  range_header.replace('bytes=', '').split('-') gives  *)
(* the list of fields; a field is a decimal number, empty, or text int()   *)
(* rejects (such as "10,20" of a multi-range header).                      *)
(***************************************************************************)
I(n)  == [t |-> "int",   v |-> n]
Empty == [t |-> "empty", v |-> 0]
Junk  == [t |-> "junk",  v |-> 0]

\* request.headers.get('Range'): None
NoHeader    == [present |-> FALSE, blank |-> FALSE, fields |-> <<>>]
\* Range: (the empty string)
BlankHeader == [present |-> TRUE,  blank |-> TRUE,  fields |-> <<Empty>>]
Header(fs)  == [present |-> TRUE,  blank |-> FALSE, fields |-> fs]

RangeHeaders ==
    {NoHeader, BlankHeader}
    \cup { Header(<<I(a), Empty>>) : a \in 0..MaxPos }          \* bytes=a-
    \cup { Header(<<I(a), I(b)>>) : a, b \in 0..MaxPos }        \* bytes=a-b
    \cup { Header(<<Empty, I(1)>>),                             \* bytes=-1
           Header(<<I(0), Junk, I(MaxPos)>>),                   \* bytes=0-1,2-MaxPos
           Header(<<Junk>>) }                                   \* bytes=abc

\* `if range_header:`
Truthy(h) == h.present /\ ~h.blank

\* the requests' filenames: /media/<path:filename>
Filenames ==
    { << <<Movie>> >>,                               \* movie.mp4
      << <<Sub>>, <<Song>> >>,                       \* sub/song.MP3
      << <<Notes>> >>,                               \* notes.TXT
      << <<Link>> >>,                                \* link.mp4 -> /etc/secret.mp4
      << <<Odd>> >>,                                 \* a..b.mp4
      << <<N("missing", ".mp4")>> >>,                \* missing.mp4
      << <<DotDot>>, <<N("etc", "")>>, <<Secret>> >>,\* ../etc/secret.mp4
      << <<Sub>>, <<DotDot>>, <<Movie>> >>,          \* sub/../movie.mp4
      << <<DotDot, Movie>> >>,                       \* ..\movie.mp4
      << <<Blank, N("etc", ""), Secret>> >> }        \* \etc\secret.mp4

Requests == {"r1"}

(***************************************************************************)
(* State.                                                                  *)
(***************************************************************************)
VARIABLES
    MEDIA_FOLDER,   \* app.py: the global media root
    files,          \* the disk: canonical path of a regular file -> its bytes
    fsChanges,      \* how many times the environment has changed `files`
    req,            \* per request: the locals of serve_media and its response
    playback_state, \* database.py: the rows of table playback_state
    db_lock,        \* the connection that holds SQLite's write lock, or NoOne
    call,           \* per client: its call of save_playback_state in progress
    loaded,         \* what the latest load_playback_state returned
    committed,      \* per (user_id, media_path): the values last committed
    listing,        \* the call of get_media_files in progress, its answer
    users,          \* database.py: table users, id -> its row
    deletion        \* per session: its call of delete_user in progress

mediaVars == <<MEDIA_FOLDER, files, fsChanges, req>>
storeVars == <<playback_state, db_lock, call, loaded, committed>>
listVars  == <<listing>>
userVars  == <<users, deletion>>
vars == <<MEDIA_FOLDER, files, fsChanges, req,
          playback_state, db_lock, call, loaded, committed, listing,
          users, deletion>>

NoHeaders == [h \in {} |-> 0]

Idle ==
    [ pc           |-> "idle",
      filename     |-> <<>>,
      range_header |-> NoHeader,
      chunk_size   |-> 0,
      safe_path    |-> <<>>,
      root         |-> <<>>,     \* MEDIA_FOLDER as line 247 read it
      file_path    |-> <<>>,
      ext          |-> "",
      file_size    |-> 0,
      start        |-> 0,
      end          |-> 0,
      raised       |-> "",       \* what the try block raised
      status       |-> 0,        \* status code of the response, 0: none yet
      headers      |-> NoHeaders,\* headers of the response
      f            |-> [open |-> FALSE, path |-> <<>>, pos |-> 0],
      remaining    |-> 0,
      body         |-> <<>>,     \* the bytes produced so far
      send_root    |-> <<>>,     \* MEDIA_FOLDER as line 300 read it
      opened       |-> <<>>,     \* canonical paths of the files opened
      writes0      |-> 0 ]       \* writes of the file when its size was read

(***************************************************************************)
(* The playback_state table (migrations.py, apply_migration_001): rows of  *)
(* user_id, media_path, position, volume, in the order of their insertion. *)
(* The id and last_updated columns are never read and are left out.        *)
(***************************************************************************)
Users     == {1, 2}
Paths     == {"a.mp4", "b.mp4"}
\* (position, volume) of the saves
Values    == { [position |-> 10, volume |-> 1], [position |-> 20, volume |-> 0] }
Clients   == {"c1", "c2"}
NoOne     == "nobody"

Row(user_id, media_path, val) ==
    [user_id |-> user_id, media_path |-> media_path,
     position |-> val.position, volume |-> val.volume]

\* nothing saved yet for a key
Unsaved == [position |-> -1, volume |-> -1]

NoCall == [pc |-> "idle", user_id |-> 0, media_path |-> "",
           val |-> Unsaved, rows |-> <<>>, raised |-> "", answer |-> 0]

\* a mapping media_path -> (position, volume) without entries
EmptyMapping == [p \in {} |-> Unsaved]

NotLoaded == [user_id |-> 0, ok |-> TRUE, result |-> EmptyMapping,
              expected |-> EmptyMapping]

\* table users (database.py 26-34): two administrators and a user; the
\* columns other than id and is_admin play no part in delete_user
InitialUsers ==
    ( 1 :> [is_admin |-> TRUE] ) @@ ( 2 :> [is_admin |-> TRUE] ) @@
    ( 3 :> [is_admin |-> FALSE] )

\* the ids a DELETE request may name: the rows above and one that never was
UserIds == {1, 2, 3, 4}

\* the logged-in administrators, by session['user_id']
Sessions == {1, 2}

NoResult == [success |-> FALSE, message |-> ""]

\* delete_user before it is called
NoDeletion ==
    [ pc |-> "idle", user_id |-> 0, admin_count |-> 0,
      result |-> NoResult, answer |-> 0 ]

\* get_media_files before it is called
NoListing ==
    [ pc          |-> "idle",
      top         |-> <<>>,      \* MEDIA_FOLDER as os.walk received it
      pending     |-> <<>>,      \* directories os.walk has still to scan
      root        |-> <<>>,      \* the directory of the current iteration
      files       |-> {},        \* its entries not yet looked at
      media_files |-> <<>>,
      raised      |-> "",
      status      |-> 0 ]

Init ==
    /\ MEDIA_FOLDER = RootA
    /\ files = InitialFiles
    /\ fsChanges = 0
    /\ req = [r \in Requests |-> Idle]
    /\ playback_state = <<>>
    /\ db_lock = NoOne
    /\ call = [c \in Clients |-> NoCall]
    /\ loaded = NotLoaded
    /\ committed = [k \in Users \X Paths |-> Unsaved]
    /\ listing = NoListing
    /\ users = InitialUsers
    /\ deletion = [c \in Sessions |-> NoDeletion]

\* `except Exception as e: ... abort(500)`: whatever the try block raises,
\* abort(403), abort(404) and abort(416) included, ends as a 500.
ExceptAbort500(q, what) ==
    [q EXCEPT !.pc = "done", !.raised = what, !.status = 500]

(***************************************************************************)
(* GET /media/<path:filename>                                              *)
(***************************************************************************)
\* a request arrives with its filename and its Range header
Receive(r) ==
    /\ req[r].pc = "idle"
    /\ \E fn \in Filenames, h \in RangeHeaders, cs \in 1..MaxChunk :
         req' = [req EXCEPT ![r] =
                   [Idle EXCEPT !.pc = "resolve", !.filename = fn,
                                !.range_header = h, !.chunk_size = cs]]
    /\ UNCHANGED <<MEDIA_FOLDER, files, fsChanges>>
    /\ UNCHANGED <<storeVars, listVars, userVars>>

\* lines 242-247: normalise, refuse '..', join onto MEDIA_FOLDER
ResolveStep(q, media_folder) ==
    LET safe_path == SafePath(q.filename)
    IN  IF ContainsDotDot(safe_path)
        THEN ExceptAbort500([q EXCEPT !.safe_path = safe_path], "403")
        ELSE [q EXCEPT !.pc = "inspect",
                       !.safe_path = safe_path,
                       !.root = media_folder,
                       !.file_path = join(media_folder, safe_path)]

Resolve(r) ==
    /\ req[r].pc = "resolve"
    /\ req' = [req EXCEPT ![r] = ResolveStep(req[r], MEDIA_FOLDER)]
    /\ UNCHANGED <<MEDIA_FOLDER, files, fsChanges>>
    /\ UNCHANGED <<storeVars, listVars, userVars>>

\* lines 262-264: start and end of the range, or the exception int() or the
\* indexing raises
ParseRange(h, file_size) ==
    LET byte_range == h.fields
    IN  IF byte_range[1].t # "int"
        THEN [err |-> "ValueError", start |-> 0, end |-> 0]
        ELSE IF Len(byte_range) < 2
        THEN [err |-> "IndexError", start |-> 0, end |-> 0]
        ELSE IF byte_range[2].t = "junk"
        THEN [err |-> "ValueError", start |-> 0, end |-> 0]
        ELSE [err   |-> "",
              start |-> byte_range[1].v,
              end   |-> IF byte_range[2].t = "int" THEN byte_range[2].v
                        ELSE file_size - 1]

\* lines 270-280: the 206 response
RangeHeadersOf(start, end, file_size, ext) ==
    ( "Content-Range"  :> [unit |-> "bytes", start |-> start, end |-> end,
                           size |-> file_size] ) @@
    ( "Accept-Ranges"  :> "bytes" ) @@
    ( "Content-Length" :> end - start + 1 ) @@
    ( "Content-Type"   :> IF ext \in SUPPORTED_VIDEO_TYPES THEN "video/mp4"
                          ELSE "audio/mpeg" )

\* lines 248-297: existence, extension, size, then the Range header
InspectStep(q, disk) ==
    IF ~isfile(disk, q.file_path) THEN ExceptAbort500(q, "404")
    ELSE
    LET ext == ExtOf(q.file_path)
        file_size == getsize(disk, q.file_path)
        q1 == [q EXCEPT !.ext = ext, !.file_size = file_size,
                        !.writes0 = disk[realpath(q.file_path)].writes]
    IN  IF ext \notin SUPPORTED_MEDIA_TYPES THEN ExceptAbort500([q EXCEPT !.ext = ext], "403")
        ELSE IF ~Truthy(q.range_header) THEN [q1 EXCEPT !.pc = "send"]
        ELSE
        LET pr == ParseRange(q.range_header, file_size)
        IN  IF pr.err # "" THEN ExceptAbort500(q1, pr.err)
            ELSE IF pr.start >= file_size
            THEN ExceptAbort500([q1 EXCEPT !.start = pr.start, !.end = pr.end], "416")
            ELSE [q1 EXCEPT !.pc = "open",
                            !.start = pr.start,
                            !.end = pr.end,
                            !.status = 206,
                            !.headers = RangeHeadersOf(pr.start, pr.end, file_size, ext)]

Inspect(r) ==
    /\ req[r].pc = "inspect"
    /\ req' = [req EXCEPT ![r] = InspectStep(req[r], files)]
    /\ UNCHANGED <<MEDIA_FOLDER, files, fsChanges>>
    /\ UNCHANGED <<storeVars, listVars, userVars>>

\* line 300: send_from_directory(MEDIA_FOLDER, safe_path).  Flask joins the
\* path onto the directory it is given (werkzeug safe_join refuses an
\* absolute path with NotFound), raises NotFound unless the result is a
\* file, and answers 200 with the file and its size.
SendStep(q, media_folder, disk) ==
    LET path == media_folder \o q.safe_path
    IN  IF IsAbs(q.safe_path) \/ ~isfile(disk, path)
        THEN ExceptAbort500([q EXCEPT !.send_root = media_folder], "404")
        ELSE [q EXCEPT !.pc = "done",
                       !.send_root = media_folder,
                       !.status = 200,
                       !.headers = ( "Content-Length" :> getsize(disk, path) ),
                       !.opened = Append(@, realpath(path)),
                       !.body = disk[realpath(path)].data]

SendFromDirectory(r) ==
    /\ req[r].pc = "send"
    /\ req' = [req EXCEPT ![r] = SendStep(req[r], MEDIA_FOLDER, files)]
    /\ UNCHANGED <<MEDIA_FOLDER, files, fsChanges>>
    /\ UNCHANGED <<storeVars, listVars, userVars>>

(***************************************************************************)
(* generate(): the body of the 206 response, run by the WSGI server after  *)
(* serve_media has returned (outside its try block).                       *)
(***************************************************************************)
\* OpenStep with `remaining = end - start`
OpenStepOffByOne(q, disk) ==
    IF ~isfile(disk, q.file_path)
    THEN [q EXCEPT !.pc = "failed", !.raised = "FileNotFoundError"]
    ELSE [q EXCEPT !.pc = "stream",
                   !.f = [open |-> TRUE, path |-> realpath(q.file_path),
                          pos |-> q.start],
                   !.opened = Append(@, realpath(q.file_path)),
                   !.remaining = q.end - q.start]

\* OpenStep that takes a missing file for an empty one
OpenStepSwallows(q, disk) ==
    IF ~isfile(disk, q.file_path)
    THEN [q EXCEPT !.pc = "done"]
    ELSE [q EXCEPT !.pc = "stream",
                   !.f = [open |-> TRUE, path |-> realpath(q.file_path),
                          pos |-> q.start],
                   !.opened = Append(@, realpath(q.file_path)),
                   !.remaining = q.end - q.start + 1]

\* lines 284-286: open(file_path, 'rb'), f.seek(start), remaining
OpenStep(q, disk) ==
    IF ~isfile(disk, q.file_path)
    THEN [q EXCEPT !.pc = "failed", !.raised = "FileNotFoundError"]
    ELSE [q EXCEPT !.pc = "stream",
                   !.f = [open |-> TRUE, path |-> realpath(q.file_path),
                          pos |-> q.start],
                   !.opened = Append(@, realpath(q.file_path)),
                   !.remaining = q.end - q.start + 1]

GenOpen(r) ==
    /\ req[r].pc = "open"
    /\ req' = [req EXCEPT ![r] = OpenStep(req[r], files)]
    /\ UNCHANGED <<MEDIA_FOLDER, files, fsChanges>>
    /\ UNCHANGED <<storeVars, listVars, userVars>>

Min(a, b) == IF a <= b THEN a ELSE b

\* f.read(n) at offset pos of `data`: n bytes or what is left before EOF;
\* everything up to EOF when n = -1
read(data, pos, n) ==
    LET last == IF n = -1 THEN Len(data) ELSE Min(pos + n, Len(data))
    IN  SubSeq(data, pos + 1, last)

\* lines 289-294: one turn of `while remaining:`; leaving the loop leaves
\* the with block, which closes f
ReadStep(q, disk) ==
    LET closed == [q.f EXCEPT !.open = FALSE]
        n      == Min(q.chunk_size, q.remaining)
    IN  IF q.remaining = 0
        THEN [q EXCEPT !.pc = "done", !.f = closed]
        ELSE IF n < -1
        THEN [q EXCEPT !.pc = "failed", !.f = closed, !.raised = "ValueError"]
        ELSE LET chunk == read(disk[q.f.path].data, q.f.pos, n)
             IN  IF chunk = <<>>
                 THEN [q EXCEPT !.pc = "done", !.f = closed]
                 ELSE [q EXCEPT !.remaining = @ - Len(chunk),
                                !.f.pos = @ + Len(chunk),
                                !.body = @ \o chunk]

GenRead(r) ==
    /\ req[r].pc = "stream"
    /\ req' = [req EXCEPT ![r] = ReadStep(req[r], files)]
    /\ UNCHANGED <<MEDIA_FOLDER, files, fsChanges>>
    /\ UNCHANGED <<storeVars, listVars, userVars>>

(***************************************************************************)
(* The WSGI server (start_server.py: waitress serve(app)) writes the       *)
(* status line and the headers with the first chunk of the body, or when   *)
(* the body ends.  When the body raises before that, it answers 500 in     *)
(* place of the response; afterwards it can only cut the body short.       *)
(***************************************************************************)
WroteHeader(q) == q.body # <<>> \/ q.pc = "done"

\* the status the client receives
ClientStatus(q) ==
    IF q.pc = "failed" /\ ~WroteHeader(q) THEN 500 ELSE q.status

(***************************************************************************)
(* POST /api/settings                                                      *)
(***************************************************************************)
NewFolders == { RootA, RootB, << N("nodir", "") >> }

\* lines 315-322: a folder that is a directory becomes MEDIA_FOLDER
update_settings ==
    /\ \E new_media_folder \in NewFolders :
         MEDIA_FOLDER' = IF isdir(new_media_folder) THEN new_media_folder
                         ELSE MEDIA_FOLDER
    /\ UNCHANGED <<files, fsChanges, req>>
    /\ UNCHANGED <<storeVars, listVars, userVars>>

(***************************************************************************)
(* The environment: other processes change the files on disk.              *)
(***************************************************************************)
\* the files that other processes write, shorten by a byte, or remove
Changeable == { RootA \o <<Movie>>, RootA \o <<Sub, Song>> }

FsAppend ==
    /\ fsChanges < MaxFsChanges
    /\ \E p \in Changeable, b \in NewBytes :
         /\ files[p].linked
         /\ files' = [files EXCEPT ![p].data = Append(@, b), ![p].writes = @ + 1]
    /\ fsChanges' = fsChanges + 1
    /\ UNCHANGED <<MEDIA_FOLDER, req>>
    /\ UNCHANGED <<storeVars, listVars, userVars>>

FsTruncate ==
    /\ fsChanges < MaxFsChanges
    /\ \E p \in Changeable :
         /\ files[p].linked
         /\ Len(files[p].data) > 0
         /\ files' = [files EXCEPT ![p].data = SubSeq(@, 1, Len(@) - 1),
                                 ![p].writes = @ + 1]
    /\ fsChanges' = fsChanges + 1
    /\ UNCHANGED <<MEDIA_FOLDER, req>>
    /\ UNCHANGED <<storeVars, listVars, userVars>>

FsUnlink ==
    /\ fsChanges < MaxFsChanges
    /\ \E p \in Changeable :
         /\ files[p].linked
         /\ files' = [files EXCEPT ![p].linked = FALSE]
    /\ fsChanges' = fsChanges + 1
    /\ UNCHANGED <<MEDIA_FOLDER, req>>
    /\ UNCHANGED <<storeVars, listVars, userVars>>

Next ==
    \/ \E r \in Requests : Receive(r)
    \/ \E r \in Requests : Resolve(r)
    \/ \E r \in Requests : Inspect(r)
    \/ \E r \in Requests : SendFromDirectory(r)
    \/ \E r \in Requests : GenOpen(r)
    \/ \E r \in Requests : GenRead(r)
    \/ update_settings
    \/ FsAppend
    \/ FsTruncate
    \/ FsUnlink

Spec == Init /\ [][Next]_vars

(***************************************************************************)
(* database.py: save_playback_state and load_playback_state.  Every call   *)
(* opens its own connection.  The INSERT starts a transaction that holds   *)
(* SQLite's write lock until conn.commit(); a second writer that finds the *)
(* lock taken gives up with "database is locked".                          *)
(***************************************************************************)
\* UpsertRows without ON CONFLICT ... DO UPDATE and without the UNIQUE
\* constraint: a plain insert
InsertRow(rows, user_id, media_path, val) ==
    Append(rows, Row(user_id, media_path, val))

\* INSERT ... ON CONFLICT(user_id, media_path) DO UPDATE SET position,
\* volume: the row of the key is overwritten, or a new row is added
UpsertRows(rows, user_id, media_path, val) ==
    IF \E i \in 1..Len(rows) :
          rows[i].user_id = user_id /\ rows[i].media_path = media_path
    THEN [i \in 1..Len(rows) |->
            IF rows[i].user_id = user_id /\ rows[i].media_path = media_path
            THEN Row(user_id, media_path, val)
            ELSE rows[i]]
    ELSE Append(rows, Row(user_id, media_path, val))

\* lines 170-179: connect and execute the upsert inside a new transaction
SaveExecute(c) ==
    /\ call[c].pc = "idle"
    /\ db_lock = NoOne
    /\ \E user_id \in Users, media_path \in Paths, val \in Values :
         call' = [call EXCEPT ![c] =
                    [pc |-> "execute", user_id |-> user_id,
                     media_path |-> media_path, val |-> val,
                     rows |-> UpsertRows(playback_state, user_id, media_path, val),
                     raised |-> "", answer |-> 0]]
    /\ db_lock' = c
    /\ UNCHANGED <<playback_state, loaded, committed>>
    /\ UNCHANGED <<mediaVars, listVars, userVars>>

\* lines 172-183 while another connection holds the write lock: execute
\* raises sqlite3.OperationalError, the except clause logs it and the call
\* returns as any other; nothing is written.  api_playback_state (app.py
\* 225-226) then answers {"status": "success"}, status 200
SaveBusy(c) ==
    /\ call[c].pc = "idle"
    /\ db_lock \notin {NoOne, c}
    /\ call' = [call EXCEPT ![c] = [NoCall EXCEPT !.raised = "OperationalError",
                                              !.answer = 200]]
    /\ UNCHANGED <<playback_state, db_lock, loaded, committed>>
    /\ UNCHANGED <<mediaVars, listVars, userVars>>

\* lines 180-181: conn.commit() makes the transaction's rows the table;
\* api_playback_state (app.py 225-226) answers {"status": "success"}
SaveCommit(c) ==
    /\ call[c].pc = "execute"
    /\ playback_state' = call[c].rows
    /\ committed' = [committed EXCEPT
                       ![<<call[c].user_id, call[c].media_path>>] = call[c].val]
    /\ db_lock' = NoOne
    /\ call' = [call EXCEPT ![c] = [NoCall EXCEPT !.answer = 200]]
    /\ UNCHANGED loaded
    /\ UNCHANGED <<mediaVars, listVars, userVars>>

\* lines 180-183 when the store fails: conn.commit() raises, the except
\* clause logs it, the transaction is rolled back with its connection and
\* the call returns None; api_playback_state (app.py 225-226) cannot tell
\* and answers {"status": "success"}
SaveCommitFails(c) ==
    /\ call[c].pc = "execute"
    /\ db_lock' = NoOne
    /\ call' = [call EXCEPT ![c] = [NoCall EXCEPT !.raised = "OperationalError",
                                              !.answer = 200]]
    /\ UNCHANGED <<playback_state, loaded, committed>>
    /\ UNCHANGED <<mediaVars, listVars, userVars>>

\* line 193: the dict built from the rows of the user, in their order
RECURSIVE RowsToDict(_, _)
RowsToDict(rows, user_id) ==
    IF rows = <<>> THEN EmptyMapping
    ELSE LET row  == rows[Len(rows)]
             dict == RowsToDict(SubSeq(rows, 1, Len(rows) - 1), user_id)
         IN  IF row.user_id # user_id THEN dict
             ELSE [p \in DOMAIN dict \cup {row.media_path} |->
                     IF p = row.media_path
                     THEN [position |-> row.position, volume |-> row.volume]
                     ELSE dict[p]]

\* what the commits so far make of a user's state
CommittedOf(user_id) ==
    [p \in {x \in Paths : committed[<<user_id, x>>] # Unsaved} |->
        committed[<<user_id, p>>]]

\* lines 187-193: SELECT ... WHERE user_id = ? on the committed table
load_playback_state(user_id) ==
    /\ loaded' = [user_id |-> user_id, ok |-> TRUE,
                  result |-> RowsToDict(playback_state, user_id),
                  expected |-> CommittedOf(user_id)]
    /\ UNCHANGED <<playback_state, db_lock, call, committed>>
    /\ UNCHANGED <<mediaVars, listVars, userVars>>

\* lines 194-196: the store fails, the except clause returns {}
LoadFails(user_id) ==
    /\ loaded' = [user_id |-> user_id, ok |-> FALSE,
                  result |-> EmptyMapping,
                  expected |-> CommittedOf(user_id)]
    /\ UNCHANGED <<playback_state, db_lock, call, committed>>
    /\ UNCHANGED <<mediaVars, listVars, userVars>>

NextStore ==
    \/ \E c \in Clients : SaveExecute(c)
    \/ \E c \in Clients : SaveBusy(c)
    \/ \E c \in Clients : SaveCommit(c)
    \/ \E c \in Clients : SaveCommitFails(c)
    \/ \E u \in Users : load_playback_state(u)
    \/ \E u \in Users : LoadFails(u)

SpecStore == Init /\ [][NextStore]_vars

(***************************************************************************)
(* GET /api/media: get_media_files (app.py 181-208) walks MEDIA_FOLDER.    *)
(* os.walk scans one directory at a time, when the loop asks for the next  *)
(* one, so the disk can change between a scan and the os.stat of an entry  *)
(* the scan has found.  The modified time of an entry is left out.         *)
(***************************************************************************)
\* the directory a path lies in
dirname(path) == SubSeq(path, 1, Len(path) - 1)

\* os.walk's `files` of a directory: the names that are not directories,
\* symbolic links to files among them
ScanFiles(disk, dir) ==
    { p[Len(p)] : p \in { x \in DOMAIN disk \cup DOMAIN Symlinks :
                            /\ dirname(x) = dir
                            /\ x \in DOMAIN disk => disk[x].linked } }

\* os.walk's `dirs` of a directory
ScanDirs(dir) == { d \in Dirs : d # <<>> /\ dirname(d) = dir }

\* a set of directories in the order os.walk comes to them
RECURSIVE SeqOf(_)
SeqOf(set) ==
    IF set = {} THEN <<>>
    ELSE LET d == CHOOSE x \in set : TRUE IN <<d>> \o SeqOf(set \ {d})

\* length of the longest common prefix
RECURSIVE CommonLen(_, _)
CommonLen(a, b) ==
    IF a = <<>> \/ b = <<>> \/ Head(a) # Head(b) THEN 0
    ELSE 1 + CommonLen(Tail(a), Tail(b))

\* os.path.relpath(path, start)
relpath(path, start) ==
    LET k == CommonLen(path, start)
    IN  [i \in 1..(Len(start) - k) |-> DotDot] \o SubSeq(path, k + 1, Len(path))

\* line 186: os.walk(MEDIA_FOLDER) is called
ListStart ==
    /\ listing.pc = "idle"
    /\ listing' = [NoListing EXCEPT !.pc = "walk", !.top = MEDIA_FOLDER,
                                    !.pending = <<MEDIA_FOLDER>>]
    /\ UNCHANGED <<mediaVars, storeVars, userVars>>

\* lines 186-187 and 205: the loop asks os.walk for the next directory,
\* which is scanned now (a directory that cannot be scanned is passed
\* over, os.walk has no onerror); after the last one the list is returned
ListScan ==
    /\ listing.pc = "walk"
    /\ listing.files = {}
    /\ IF listing.pending = <<>>
       THEN listing' = [listing EXCEPT !.pc = "done", !.status = 200]
       ELSE LET dir == Head(listing.pending)
            IN  listing' =
                  IF isdir(dir)
                  THEN [listing EXCEPT
                          !.root = dir,
                          !.files = ScanFiles(files, dir),
                          !.pending = SeqOf(ScanDirs(dir)) \o Tail(@)]
                  ELSE [listing EXCEPT !.pending = Tail(@)]
    /\ UNCHANGED <<mediaVars, storeVars, userVars>>

\* lines 188-203 and 206-208: one entry of the directory; os.stat raises
\* for an entry that is gone, the except clause around the whole walk
\* answers 500
ListFile ==
    /\ listing.pc = "walk"
    /\ \E file \in listing.files :
         LET file_path == join(listing.root, <<file>>)
             rel_path  == relpath(file_path, MEDIA_FOLDER)
             ext       == Lower(file.ext)
         IN  listing' =
               IF ext \notin SUPPORTED_MEDIA_TYPES
               THEN [listing EXCEPT !.files = @ \ {file}]
               ELSE IF ~isfile(files, file_path)
               THEN [listing EXCEPT !.pc = "done", !.status = 500,
                                    !.raised = "FileNotFoundError",
                                    !.files = {}]
               ELSE [listing EXCEPT
                       !.files = @ \ {file},
                       !.media_files = Append(@,
                           [name |-> file, path |-> rel_path,
                            size |-> getsize(files, file_path),
                            type |-> IF ext \in SUPPORTED_VIDEO_TYPES
                                     THEN "video" ELSE "audio"])]
    /\ UNCHANGED <<mediaVars, storeVars, userVars>>

NextList ==
    \/ ListStart
    \/ ListScan
    \/ ListFile
    \/ update_settings
    \/ FsAppend
    \/ FsTruncate
    \/ FsUnlink

SpecList == Init /\ [][NextList]_vars

(***************************************************************************)
(* DELETE /api/users/<user_id>: remove_user (app.py 378-390) and           *)
(* delete_user (database.py 213-245).  Each call has a connection of its   *)
(* own; a SELECT outside a transaction sees what is committed at that      *)
(* moment, DELETE and commit() follow each other and are one step.         *)
(***************************************************************************)
Returned(d, success, message) ==
    [d EXCEPT !.pc = "idle",
              !.result = [success |-> success, message |-> message],
              !.answer = IF success THEN 200 ELSE 400]

\* app.py 383-386 and database.py 220-230: the self-check, then SELECT *
\* FROM users WHERE id = ?
DeleteSelect(c) ==
    /\ deletion[c].pc = "idle"
    /\ \E user_id \in UserIds :
         LET d == [NoDeletion EXCEPT !.user_id = user_id]
         IN  deletion' = [deletion EXCEPT ![c] =
               IF user_id = c
               THEN [d EXCEPT !.answer = 400]
               ELSE IF user_id \notin DOMAIN users
               THEN Returned(d, FALSE, "User not found")
               ELSE IF users[user_id].is_admin
               THEN [d EXCEPT !.pc = "count"]
               ELSE [d EXCEPT !.pc = "delete"]]
    /\ UNCHANGED users
    /\ UNCHANGED <<mediaVars, storeVars, listVars>>

\* database.py 229-234: SELECT COUNT(*) FROM users WHERE is_admin = 1
DeleteCount(c) ==
    /\ deletion[c].pc = "count"
    /\ LET admin_count == Cardinality({u \in DOMAIN users : users[u].is_admin})
           d == [deletion[c] EXCEPT !.admin_count = admin_count]
       IN  deletion' = [deletion EXCEPT ![c] =
             IF admin_count <= 1
             THEN Returned(d, FALSE, "Cannot delete the last admin user")
             ELSE [d EXCEPT !.pc = "delete"]]
    /\ UNCHANGED users
    /\ UNCHANGED <<mediaVars, storeVars, listVars>>

\* database.py 237-242: DELETE FROM users WHERE id = ?, commit
DeleteCommit(c) ==
    /\ deletion[c].pc = "delete"
    /\ users' = [u \in DOMAIN users \ {deletion[c].user_id} |-> users[u]]
    /\ deletion' = [deletion EXCEPT ![c] =
                      Returned(deletion[c], TRUE, "User deleted successfully")]
    /\ UNCHANGED <<mediaVars, storeVars, listVars>>

NextUsers ==
    \/ \E c \in Sessions : DeleteSelect(c)
    \/ \E c \in Sessions : DeleteCount(c)
    \/ \E c \in Sessions : DeleteCommit(c)

SpecUsers == Init /\ [][NextUsers]_vars

(***************************************************************************)
(* Two range responses streamed side by side.  The WSGI server iterates    *)
(* the generator of each response; when the client goes away it stops and  *)
(* calls close() on the generator, which raises GeneratorExit at the yield *)
(* and so leaves the with block of generate().  A read that fails (the     *)
(* disk, not the code) raises OSError inside the with block.               *)
(***************************************************************************)
StreamRequests == {"r1", "r2"}

\* none, bytes=0-, bytes=1-MaxPos, bytes=MaxPos-, bytes=2-0
StreamHeaders ==
    { NoHeader, Header(<<I(0), Empty>>), Header(<<I(1), I(MaxPos)>>),
      Header(<<I(MaxPos), Empty>>), Header(<<I(2), I(0)>>) }

InitStream ==
    /\ MEDIA_FOLDER = RootA
    /\ files = InitialFiles
    /\ fsChanges = 0
    /\ req = [r \in StreamRequests |-> Idle]
    /\ playback_state = <<>>
    /\ db_lock = NoOne
    /\ call = [c \in Clients |-> NoCall]
    /\ loaded = NotLoaded
    /\ committed = [k \in Users \X Paths |-> Unsaved]
    /\ listing = NoListing
    /\ users = InitialUsers
    /\ deletion = [c \in Sessions |-> NoDeletion]

\* a request for movie.mp4 arrives
ReceiveStream(r) ==
    /\ req[r].pc = "idle"
    /\ \E h \in StreamHeaders, cs \in 1..MaxChunk :
         req' = [req EXCEPT ![r] =
                   [Idle EXCEPT !.pc = "resolve", !.filename = << <<Movie>> >>,
                                !.range_header = h, !.chunk_size = cs]]
    /\ UNCHANGED <<MEDIA_FOLDER, files, fsChanges>>
    /\ UNCHANGED <<storeVars, listVars, userVars>>

\* close() on the generator that forgets to leave the with block
DisconnectStepLeaks(q) == [q EXCEPT !.pc = "aborted"]

\* lines 284-294: close() on the generator; GeneratorExit at the yield
\* leaves `with open(...) as f`, which closes f (a generator that was
\* never started has opened nothing)
DisconnectStep(q) == [q EXCEPT !.pc = "aborted", !.f.open = FALSE]

\* the client of a range response goes away
ClientDisconnect(r) ==
    /\ req[r].pc \in {"open", "stream"}
    /\ req' = [req EXCEPT ![r] = DisconnectStep(req[r])]
    /\ UNCHANGED <<MEDIA_FOLDER, files, fsChanges>>
    /\ UNCHANGED <<storeVars, listVars, userVars>>

\* line 290: f.read raises OSError; it leaves the with block, which closes f
ReadError(r) ==
    /\ req[r].pc = "stream"
    /\ req[r].remaining # 0
    /\ req' = [req EXCEPT ![r].pc = "failed", ![r].raised = "OSError",
                          ![r].f.open = FALSE]
    /\ UNCHANGED <<MEDIA_FOLDER, files, fsChanges>>
    /\ UNCHANGED <<storeVars, listVars, userVars>>

NextStream ==
    \/ \E r \in StreamRequests : ReceiveStream(r)
    \/ \E r \in StreamRequests : Resolve(r)
    \/ \E r \in StreamRequests : Inspect(r)
    \/ \E r \in StreamRequests : SendFromDirectory(r)
    \/ \E r \in StreamRequests : GenOpen(r)
    \/ \E r \in StreamRequests : GenRead(r)
    \/ \E r \in StreamRequests : ClientDisconnect(r)
    \/ \E r \in StreamRequests : ReadError(r)
    \/ FsAppend
    \/ FsTruncate
    \/ FsUnlink

SpecStream == InitStream /\ [][NextStream]_vars

(***************************************************************************)
(* Properties of GET /media.                                               *)
(***************************************************************************)
\* the request has its final response: serve_media has returned or raised,
\* and the generator, if any, has ended
Terminal(q) == q.pc \in {"done", "failed"}

\* the filename holds a ".." segment: as supplied (between any separators)
\* or after normalisation
DotDotSegment(filename) ==
    \/ \E i \in 1..Len(filename) :
         \E j \in 1..Len(filename[i]) : filename[i][j] = DotDot
    \/ \E i \in 1..Len(SafePath(filename)) : SafePath(filename)[i] = DotDot

\* the request named a regular file that exists (lines 247-248 passed)
NamedExistingFile(q) ==
    /\ q.pc \notin {"idle", "resolve", "inspect"}
    /\ q.file_path # <<>>
    /\ ~(q.raised = "404" /\ q.send_root = <<>>)

\* ... with a supported extension (lines 251-253 passed), under the root
\* that line 247 read
NamedSupportedFile(q) ==
    /\ NamedExistingFile(q)
    /\ ExtOf(q.file_path) \in SUPPORTED_MEDIA_TYPES
    /\ IsUnder(realpath(q.file_path), q.root)

\* the Range header has the form bytes=<start>-[<end>]
WellFormedRange(h) ==
    /\ Truthy(h)
    /\ Len(h.fields) = 2
    /\ h.fields[1].t = "int"
    /\ h.fields[2].t \in {"int", "empty"}

\* C1: a request whose path holds a ".." segment, as supplied or after
\* normalisation, ends with status 403, and no file is opened or streamed.
C1_TraversalIs403 ==
    \A r \in Requests :
        (Terminal(req[r]) /\ DotDotSegment(req[r].filename))
            => /\ req[r].status = 403
               /\ req[r].opened = <<>>
               /\ req[r].body = <<>>

\* C2: a range request on an existing supported file whose start is at or
\* beyond the file size ends with status 416, without Content-Range and
\* without a byte streamed.
C2_StartBeyondEofIs416 ==
    \A r \in Requests :
        ( /\ Terminal(req[r])
          /\ NamedSupportedFile(req[r])
          /\ WellFormedRange(req[r].range_header)
          /\ req[r].range_header.fields[1].v >= req[r].file_size )
            => /\ req[r].status = 416
               /\ "Content-Range" \notin DOMAIN req[r].headers
               /\ req[r].body = <<>>

\* C3: a range request with start < fileSize and a requested end >= fileSize
\* is answered 206 with the end clamped: Content-Range
\* bytes start-(fileSize-1)/fileSize and Content-Length fileSize - start.
C3_EndClamped ==
    \A r \in Requests :
        LET q == req[r]
            h == q.range_header
        IN  ( /\ q.pc \in {"open", "stream", "done", "failed"}
              /\ NamedSupportedFile(q)
              /\ WellFormedRange(h)
              /\ h.fields[2].t = "int"
              /\ h.fields[1].v < q.file_size
              /\ h.fields[2].v >= q.file_size )
                => /\ q.status = 206
                   /\ q.headers["Content-Range"] =
                        [unit |-> "bytes", start |-> h.fields[1].v,
                         end |-> q.file_size - 1, size |-> q.file_size]
                   /\ q.headers["Content-Length"] = q.file_size - h.fields[1].v

\* C4: every 206 response announces a range with start <= end < fileSize,
\* Accept-Ranges bytes and Content-Length = end - start + 1 (so between 1
\* and fileSize); an omitted end is fileSize - 1.  For every header
\* bytes=<start>-[<end>], end < start included.
C4_ByteRangeInvariant ==
    \A r \in Requests :
        LET q == req[r]
            h == q.range_header
        IN  (q.status = 206 /\ WellFormedRange(h))
                => LET cr == q.headers["Content-Range"]
                       cl == q.headers["Content-Length"]
                   IN  /\ cr.unit = "bytes"
                       /\ cr.start = h.fields[1].v
                       /\ cr.size = q.file_size
                       /\ cr.start <= cr.end
                       /\ cr.end < cr.size
                       /\ q.headers["Accept-Ranges"] = "bytes"
                       /\ cl = cr.end - cr.start + 1
                       /\ cl >= 1
                       /\ cl <= q.file_size
                       /\ (h.fields[2].t = "empty" => cr.end = q.file_size - 1)

\* the file the request sized is still in place, with the bytes it had
FileUntouched(q) ==
    LET file == files[realpath(q.file_path)]
    IN  file.linked /\ file.writes = q.writes0

\* the bytes of the file at offsets start..end inclusive
Slice(data, start, end) == SubSeq(data, start + 1, end + 1)

\* C5: for a byte range with start <= end < fileSize over a file that does
\* not change during the response, the producer never fails, what it has
\* emitted so far is always the beginning of the file's bytes start..end,
\* and when it ends it has emitted exactly end - start + 1 bytes: those at
\* offsets start..end.  For every chunk size in 1..MaxChunk.
C5_ProducerEmitsSlice ==
    \A r \in Requests :
        LET q == req[r]
        IN  ( /\ q.status = 206
              /\ q.start <= q.end
              /\ q.end < q.file_size
              /\ FileUntouched(q) )
                => LET data  == files[realpath(q.file_path)].data
                       slice == Slice(data, q.start, q.end)
                   IN  /\ q.pc # "failed"
                       /\ Len(q.body) <= q.end - q.start + 1
                       /\ q.body = SubSeq(slice, 1, Len(q.body))
                       /\ q.pc = "done" =>
                            /\ Len(q.body) = q.end - q.start + 1
                            /\ q.body = slice
                            /\ ~q.f.open

\* C5 happens: a range of three bytes was streamed in chunks of one or two
\* bytes from a file that did not change
C5_Witness ==
    \E r \in Requests :
        /\ req[r].pc = "done"
        /\ req[r].status = 206
        /\ req[r].start = 0
        /\ req[r].end = 2
        /\ req[r].file_size = 3
        /\ req[r].chunk_size = 2
        /\ FileUntouched(req[r])
        /\ req[r].body = <<1, 2, 3>>

\* C6: a request for an existing supported file without a Range header
\* ends with status 200, the whole file as body, Content-Length equal to
\* the file size and no Content-Range; 206 is never the status of a
\* request without a Range header.
C6_FullContentIs200 ==
    \A r \in Requests :
        LET q == req[r]
        IN  /\ ~Truthy(q.range_header) => q.status # 206
            /\ ( /\ Terminal(q)
                 /\ ~Truthy(q.range_header)
                 /\ NamedSupportedFile(q)
                 /\ FileUntouched(q) )
                   => /\ q.status = 200
                      /\ q.body = files[realpath(q.file_path)].data
                      /\ q.headers["Content-Length"] = q.file_size
                      /\ "Content-Range" \notin DOMAIN q.headers

\* C7: a request that names an existing regular file under the media root
\* whose extension, lower-cased, is not a supported one ends with status
\* 403, and no byte of the file is sent.
C7_UnsupportedExtensionIs403 ==
    \A r \in Requests :
        LET q == req[r]
        IN  ( /\ Terminal(q)
              /\ NamedExistingFile(q)
              /\ IsUnder(realpath(q.file_path), q.root)
              /\ ExtOf(q.file_path) \notin SUPPORTED_MEDIA_TYPES )
                => /\ q.status = 403
                   /\ q.body = <<>>

\* the path the request asked for leads, symbolic links resolved, to a place
\* outside the media root it was joined onto
ResolvesOutside(q) ==
    /\ q.file_path # <<>>
    /\ realpath(q.file_path) # NoEnt
    /\ ~IsUnder(realpath(q.file_path), q.root)

\* C8: every file serve_media opens or serves has its canonical path under
\* a media root the request read, and a request whose joined path resolves
\* outside the root (through a symbolic link or an absolute path) is
\* rejected: it is answered neither 200 nor 206 and gets no byte.  (The
\* claim names the rejection Forbidden; what is stated here follows from it.)
C8_ServedFilesUnderRoot ==
    \A r \in Requests :
        LET q == req[r]
        IN  /\ \A i \in 1..Len(q.opened) :
                  \/ IsUnder(q.opened[i], q.root)
                  \/ IsUnder(q.opened[i], q.send_root)
            /\ ResolvesOutside(q) =>
                  /\ q.status \notin {200, 206}
                  /\ q.body = <<>>

\* C10: a request uses one root value, the one it read first, for
\* validation, size lookup and serving, whatever update_settings does
\* meanwhile.
C10_OneRootPerRequest ==
    \A r \in Requests :
        LET q == req[r]
        IN  /\ q.send_root # <<>> => q.send_root = q.root
            /\ \A i \in 1..Len(q.opened) :
                  \/ IsUnder(q.opened[i], q.root)
                  \/ realpath(q.file_path) = q.opened[i]

(***************************************************************************)
(* Properties of the playback-state store.                                 *)
(***************************************************************************)
\* C9: after any interleaving of save_playback_state calls, the table holds
\* at most one row per (user_id, media_path); for every user, what
\* load_playback_state reads from the table is, path by path, the position
\* and volume of the latest committed save of that key (so a save leaves
\* the other keys and the other users as they were, and a user without
\* saves gets the empty mapping); and the load that ran last returned
\* exactly that, unless the store failed under it.
C9_OneRowPerKeyLatestWins ==
    /\ \A i, j \in 1..Len(playback_state) :
          ( /\ playback_state[i].user_id = playback_state[j].user_id
            /\ playback_state[i].media_path = playback_state[j].media_path )
              => i = j
    /\ \A u \in Users : RowsToDict(playback_state, u) = CommittedOf(u)
    /\ loaded.ok => loaded.result = loaded.expected

\* C9 happens: user 1 has overwritten a.mp4, user 2 saved the same path
\* with other values, user 1 never saved b.mp4, and a load of user 1
\* returned the overwritten values alone
C9_Witness ==
    /\ committed[<<1, "a.mp4">>] = [position |-> 20, volume |-> 0]
    /\ committed[<<2, "a.mp4">>] = [position |-> 10, volume |-> 1]
    /\ committed[<<1, "b.mp4">>] = Unsaved
    /\ Len(playback_state) = 2
    /\ playback_state[1] = Row(1, "a.mp4", [position |-> 20, volume |-> 0])
    /\ loaded.user_id = 1
    /\ loaded.ok
    /\ loaded.result = ("a.mp4" :> [position |-> 20, volume |-> 0])

(***************************************************************************)
(* Properties of the range producer and of the Range parser.               *)
(***************************************************************************)
\* C11: when the file of a range request is gone by the time generate()
\* opens it, the request ends Failed: the error is raised before the
\* status line is written, the client receives 500 (or 404) and not 206,
\* no byte is produced and no handle stays open.
C11_OpenFailureIsFailed ==
    \A r \in Requests :
        LET q == req[r]
        IN  ( /\ q.status = 206
              /\ q.pc # "open"
              /\ q.opened = <<>>
              /\ ~isfile(files, q.file_path) )
                => /\ q.pc = "failed"
                   /\ q.body = <<>>
                   /\ ~WroteHeader(q)
                   /\ ClientStatus(q) \in {404, 500}
                   /\ ~q.f.open

\* C11 happens: the file was removed after its size was read, the open
\* failed and the client got 500
C11_Witness ==
    \E r \in Requests :
        /\ req[r].status = 206
        /\ req[r].pc = "failed"
        /\ req[r].raised = "FileNotFoundError"
        /\ req[r].file_size = 3
        /\ ~files[RootA \o <<Movie>>].linked
        /\ ClientStatus(req[r]) = 500

\* a Range header that names two ranges: bytes=0-1,2-MaxPos
IsMultiRange(h) == h = Header(<<I(0), Junk, I(MaxPos)>>)

\* C12: a multi-range header on an existing supported file is served as
\* full content (200, the whole file) or explicitly rejected (400 or 416);
\* it is never parsed into one byte range (206) and never ends in the
\* generic failure path (an exception of the parser, status 500).
C12_MultiRangeHandled ==
    \A r \in Requests :
        LET q == req[r]
        IN  ( /\ Terminal(q)
              /\ NamedSupportedFile(q)
              /\ IsMultiRange(q.range_header) )
                => /\ q.raised \notin {"ValueError", "IndexError"}
                   /\ q.status \in {200, 400, 416}

\* C15: a range response never produces more bytes than the Content-Length
\* it announced, whatever the header asked for and however the file
\* changes meanwhile; the producer never reads past offset end and ends
\* without an error of its own.
C15_NeverMoreThanAnnounced ==
    \A r \in Requests :
        LET q == req[r]
        IN  q.status = 206 =>
                /\ q.body # <<>> =>
                       /\ Len(q.body) <= q.headers["Content-Length"]
                       /\ q.f.pos <= q.end + 1
                /\ q.raised # "ValueError"

(***************************************************************************)
(* Properties of POST /api/playback-state.                                 *)
(***************************************************************************)
\* C13: a save that the store did not commit is answered 500, and the
\* endpoint answers success (200) only for a save that was committed.
C13_FailedSaveIs500 ==
    \A c \in Clients :
        ( call[c].pc = "idle" /\ call[c].answer # 0 )
            => /\ call[c].raised # "" => call[c].answer = 500
               /\ call[c].answer = 200 => call[c].raised = ""

(***************************************************************************)
(* Properties of the media listing.                                        *)
(***************************************************************************)
\* C14: a listing whose root can be read succeeds, whatever happens to
\* single entries meanwhile: it answers 200 with every supported file that
\* is on disk under the root, an entry that failed is skipped alone.
C14_ListingSkipsFailedEntries ==
    listing.pc = "done" =>
        /\ listing.status = 200
        /\ listing.raised = ""
        /\ \A p \in DOMAIN files :
              ( /\ files[p].linked
                /\ ExtOf(p) \in SUPPORTED_MEDIA_TYPES
                /\ CommonLen(p, listing.top) = Len(listing.top) )
                  => \E i \in 1..Len(listing.media_files) :
                        listing.media_files[i].name = p[Len(p)]

(***************************************************************************)
(* Properties of the file handle of generate().                            *)
(***************************************************************************)
\* the request is over: Completed, Failed or Aborted
Ended(q) == q.pc \in {"done", "failed", "aborted"}

\* the handle of generate() was opened at some point
Streamed(q) == q.f.path # <<>>

HandleLifecycle ==
    \A r \in DOMAIN req :
        LET q == req[r]
        IN  /\ Len(q.opened) <= 1
            /\ q.f.open => q.pc = "stream"
            /\ Ended(q) => ~q.f.open
            /\ Streamed(q) =>
                  /\ q.status = 206
                  /\ Truthy(q.range_header)
                  /\ q.start < q.file_size
                  /\ q.opened = <<q.f.path>>

\* a step touches the handle of one request at most
HandleNotShared ==
    \A r1, r2 \in DOMAIN req :
        (req'[r1].f # req[r1].f /\ req'[r2].f # req[r2].f) => r1 = r2

\* C16: a range response opens at most one file handle, after the range
\* check of line 266 has passed; the handle is open only while the response
\* streams and is closed once the request has ended (completed, aborted by
\* a client disconnect, failed by a read error); no step of one request
\* touches the handle of another.
C16_OneHandleClosedAtEnd == []HandleLifecycle /\ [][HandleNotShared]_vars

\* C16 happens: both requests streamed movie.mp4 through handles of their
\* own; one was aborted by its client after a first chunk, the other
\* failed on a read error, and both handles are closed
C16_Witness ==
    /\ req["r1"].pc = "aborted"
    /\ req["r1"].body # <<>>
    /\ req["r2"].pc = "failed"
    /\ req["r2"].raised = "OSError"
    /\ Streamed(req["r1"]) /\ Streamed(req["r2"])
    /\ req["r1"].f.path = req["r2"].f.path
    /\ req["r1"].f.pos # req["r2"].f.pos
    /\ ~req["r1"].f.open /\ ~req["r2"].f.open

(***************************************************************************)
(* Properties of delete_user.                                              *)
(***************************************************************************)
\* C17: whatever calls of delete_user run, one after another or
\* interleaved, at least one administrator remains in table users.
C17_LastAdminSurvives ==
    \E u \in DOMAIN users : users[u].is_admin

====
